---- MODULE Spec2Model ----
(***************************************************************************)
(* Model of pkg/report/report.go: the console report generated from an     *)
(* analyzer.AnalysisResult.                                                *)
(*                                                                         *)
(* float64 values are modelled as exact fractions [n, d] with d > 0; a     *)
(* fraction with d = 0 stands for the NaN / Inf a float division by zero   *)
(* yields.  Text (translations, colours, padding) is abstracted to the     *)
(* message key or style name that selects it.                              *)
(***************************************************************************)
EXTENDS Integers, Sequences, FiniteSets, TLC

VARIABLES
    result,     \* Report.result: the AnalysisResult the report was built on
    options,    \* the *ReportOptions argument of the last GenerateConsoleReport
    out,        \* what the last GenerateConsoleReport printed
    fnArg,      \* argument of the last direct getQualityLevel call
    fnRet,      \* its return value (the NameKey of the level)
    issueArg,   \* the Issues of the file whose issues are classified
    catRet,     \* what categorizeIssues(issueArg) returned
    iconRet     \* what getIssueIconAndColor returned for each issue of issueArg

vars == <<result, options, out, fnArg, fnRet, issueArg, catRet, iconRet>>

(***************************************************************************)
(* Bounds of the model                                                     *)
(***************************************************************************)
MaxMetrics == 2     \* metrics in AnalysisResult.Metrics
MaxFiles == 2       \* files in AnalysisResult.FilesAnalyzed
MaxIssueWords == 2  \* words of an issue string that is classified
MaxIssueCount == 3  \* issues of a file whose issues are counted
ProbeDen == 2       \* getQualityLevel is probed at multiples of 1/ProbeDen

(***************************************************************************)
(* float64 as fractions                                                    *)
(***************************************************************************)
R(n, d) == [n |-> n, d |-> d]

IsNaN(x) == x.d = 0

RAdd(x, y) == R(x.n * y.d + y.n * x.d, x.d * y.d)

RMul(x, y) == R(x.n * y.n, x.d * y.d)

\* x / y; a zero divisor gives the NaN/Inf of float64 division
RDivide(x, y) ==
    IF y.n = 0 \/ IsNaN(x) \/ IsNaN(y) THEN R(0, 0)
    ELSE IF y.n > 0 THEN R(x.n * y.d, x.d * y.n)
    ELSE R(-(x.n * y.d), -(x.d * y.n))

\* comparisons with NaN are false, as for float64
RLess(x, y) == ~IsNaN(x) /\ ~IsNaN(y) /\ x.n * y.d < y.n * x.d

RGeq(x, y) == ~IsNaN(x) /\ ~IsNaN(y) /\ x.n * y.d >= y.n * x.d

RGreater(x, y) == RLess(y, x)

REq(x, y) == ~IsNaN(x) /\ ~IsNaN(y) /\ x.n * y.d = y.n * x.d

\* math.Round: nearest integer, halves away from zero (as a fraction n/1)
mathRound(x) ==
    IF IsNaN(x) THEN x
    ELSE IF x.n >= 0 THEN R((2 * x.n + x.d) \div (2 * x.d), 1)
    ELSE R(-((2 * (-x.n) + x.d) \div (2 * x.d)), 1)

\* math.Round(v*10000)/100: the percentage with two decimals
roundPercent(v) ==
    LET r == mathRound(RMul(v, R(10000, 1)))
    IN  IF IsNaN(r) THEN r ELSE R(r.n, 100)

\* int(v): truncation toward zero
intOf(x) == IF x.n >= 0 THEN x.n \div x.d ELSE -((-x.n) \div x.d)

min(a, b) == IF a < b THEN a ELSE b

(***************************************************************************)
(* QualityLevels                                                           *)
(***************************************************************************)
QualityLevels == <<
    [MinScore |-> 0,   NameKey |-> "level.clean"],
    [MinScore |-> 10,  NameKey |-> "level.mild"],
    [MinScore |-> 20,  NameKey |-> "level.moderate"],
    [MinScore |-> 30,  NameKey |-> "level.bad"],
    [MinScore |-> 40,  NameKey |-> "level.terrible"],
    [MinScore |-> 50,  NameKey |-> "level.disaster"],
    [MinScore |-> 60,  NameKey |-> "level.disaster.severe"],
    [MinScore |-> 70,  NameKey |-> "level.disaster.very_bad"],
    [MinScore |-> 80,  NameKey |-> "level.disaster.extreme"],
    [MinScore |-> 90,  NameKey |-> "level.disaster.worst"],
    [MinScore |-> 100, NameKey |-> "level.disaster.ultimate"] >>

\* the loop of getQualityLevel from index i downward
RECURSIVE qualityLevelScan(_, _)
qualityLevelScan(score, i) ==
    IF i < 1 THEN QualityLevels[1]
    ELSE IF RGeq(score, R(QualityLevels[i].MinScore, 1)) THEN QualityLevels[i]
    ELSE qualityLevelScan(score, i - 1)

\* variant: the scan starts one entry below the last
getQualityLevelFromSecondLast(score) ==
    qualityLevelScan(score, Len(QualityLevels) - 1)

getQualityLevel(score) == qualityLevelScan(score, Len(QualityLevels))

(***************************************************************************)
(* The AnalysisResult values the report is built on                        *)
(***************************************************************************)
MetricNamePool == << "Cyclomatic Complexity", "Comment Ratio",
                     "Naming Convention", "Code Structure" >>

MetricNames == { MetricNamePool[i] : i \in 1..MaxMetrics }

MetricScoreValues == { R(1, 10), R(1, 2), R(9, 10) }

MetricWeightValues == { R(1, 1), R(2, 1) }

MetricResult(name, weight, score) ==
    [Name |-> name, Weight |-> weight, Score |-> score, Description |-> name]

\* every map MetricName -> MetricResult over a subset of the names
MetricMaps ==
    UNION { { [k \in D |-> MetricResult(k, f[k][1], f[k][2])] :
                f \in [D -> MetricWeightValues \X MetricScoreValues] } :
            D \in SUBSET MetricNames }

FileScoreValues == { R(1, 5), R(1, 2), R(4, 5) }

IssueLists == { << >>,
                << "function main has high cyclomatic complexity" >>,
                << "comment ratio is low", "variable name x is too short" >>,
                << "nesting depth 7 in function run",
                   "function main has high cyclomatic complexity",
                   "error return value is ignored",
                   "comment ratio is low" >> }

\* the path of the i-th input file, as its "/"-separated parts
FilePathOf(i) == [k \in 1..(i + 2) |-> IF k = i + 2 THEN "file.go" ELSE "dir"]

FileAnalysisResult(i, score, issues) ==
    [FilePath |-> FilePathOf(i), FileScore |-> score, Issues |-> issues]

FileSeqs ==
    UNION { { [i \in 1..n |-> FileAnalysisResult(i, f[i][1], f[i][2])] :
                f \in [1..n -> FileScoreValues \X IssueLists] } :
            n \in 0..MaxFiles }

RECURSIVE gcd(_, _)
gcd(a, b) == IF b = 0 THEN a ELSE gcd(b, a % b)

reduced(x) ==
    IF x.n = 0 THEN R(0, 1)
    ELSE LET g == gcd(x.n, x.d) IN R(x.n \div g, x.d \div g)

RECURSIVE sumOver(_, _, _)
sumOver(M, D, weighted) ==
    IF D = {} THEN R(0, 1)
    ELSE LET k == CHOOSE x \in D : TRUE
             t == IF weighted THEN RMul(M[k].Score, M[k].Weight) ELSE M[k].Weight
         IN  RAdd(t, sumOver(M, D \ {k}, weighted))

\* Sum(Score*Weight)/Sum(Weight) over a Metrics map, 0 for an empty map
weightedMean(M) ==
    IF DOMAIN M = {} THEN R(0, 1)
    ELSE reduced(RDivide(sumOver(M, DOMAIN M, TRUE), sumOver(M, DOMAIN M, FALSE)))

AnalysisResult(metrics, files, score) ==
    [TotalFiles |-> Len(files), TotalLines |-> 100 * Len(files),
     Metrics |-> metrics, FilesAnalyzed |-> files, CodeQualityScore |-> score]

RefMetrics ==
    (MetricNamePool[1] :> MetricResult(MetricNamePool[1], R(1, 1), R(1, 2)))

RefFiles == << FileAnalysisResult(1, R(1, 2), << "comment ratio is low" >>) >>

EmptyMetrics == [k \in {} |-> 0]

\* the result of an empty input
EmptyResult == AnalysisResult(EmptyMetrics, << >>, R(0, 1))

\* results of the analyzer: the score is the weighted mean of the metrics
AnalyzedResults ==
    {EmptyResult}
      \cup { AnalysisResult(m, RefFiles, weightedMean(m)) : m \in MetricMaps \ {EmptyMetrics} }
      \cup { AnalysisResult(RefMetrics, f, weightedMean(RefMetrics)) : f \in FileSeqs \ {<< >>} }

\* results with every overall score k/20 of [0,1]
ScoredResults ==
    { AnalysisResult(RefMetrics, RefFiles, reduced(R(k, 20))) : k \in 0..20 }

ResultSpace == AnalyzedResults \cup ScoredResults

(***************************************************************************)
(* sort.Slice, getSortedMetrics, getSortedFiles                            *)
(***************************************************************************)
\* the less closures handed to sort.Slice
less(kind, a, b) ==
    IF kind = "metrics" THEN RLess(a.Score, b.Score)
    ELSE RGreater(a.FileScore, b.FileScore)

swap(s, i, j) == [s EXCEPT ![i] = s[j], ![j] = s[i]]

\* insertion sort's inner loop: data[j] moves left while less(j, j-1)
RECURSIVE siftLeft(_, _, _)
siftLeft(s, j, kind) ==
    IF j > 1 /\ less(kind, s[j], s[j - 1])
    THEN siftLeft(swap(s, j, j - 1), j - 1, kind)
    ELSE s

RECURSIVE insertionSort(_, _, _)
insertionSort(s, i, kind) ==
    IF i > Len(s) THEN s
    ELSE insertionSort(siftLeft(s, i, kind), i + 1, kind)

\* sort.Slice on the short slices of the model (insertion sort up to 12 elements)
sortSlice(s, kind) == insertionSort(s, 2, kind)

\* the orders in which a range over the map can visit its keys
IterationOrders(M) ==
    LET D == DOMAIN M
        n == Cardinality(D)
    IN  { p \in [1..n -> D] : \A i, j \in 1..n : p[i] = p[j] => i = j }

\* variant: the slice is returned in map order, without the sort
getSortedMetricsUnsorted(res, iter) ==
    [i \in 1..Len(iter) |-> res.Metrics[iter[i]]]

\* getSortedMetrics, for the order iter in which the map range runs
getSortedMetrics(res, iter) ==
    sortSlice([i \in 1..Len(iter) |-> res.Metrics[iter[i]]], "metrics")

\* variant: worstFiles aliases r.result.FilesAnalyzed, which the sort reorders
getSortedFilesInPlace(res) ==
    [worstFiles |-> sortSlice(res.FilesAnalyzed, "files"),
     FilesAnalyzed |-> sortSlice(res.FilesAnalyzed, "files")]

\* variant: the copy is returned without the sort
getSortedFilesUnsorted(res) ==
    [worstFiles |-> << >> \o res.FilesAnalyzed,
     FilesAnalyzed |-> res.FilesAnalyzed]

\* getSortedFiles: the returned slice and r.result.FilesAnalyzed after the call
getSortedFiles(res) ==
    LET worstFiles == << >> \o res.FilesAnalyzed
    IN  [worstFiles |-> sortSlice(worstFiles, "files"),
         FilesAnalyzed |-> res.FilesAnalyzed]

(***************************************************************************)
(* ReportOptions                                                           *)
(***************************************************************************)
ReportOptions(verbose, topFiles, maxIssues, summaryOnly) ==
    [isNil |-> FALSE, Verbose |-> verbose, TopFiles |-> topFiles,
     MaxIssues |-> maxIssues, SummaryOnly |-> summaryOnly]

DefaultReportOptions == ReportOptions(FALSE, 3, 3, FALSE)

\* a nil *ReportOptions
NilOptions ==
    [isNil |-> TRUE, Verbose |-> FALSE, TopFiles |-> 0, MaxIssues |-> 0,
     SummaryOnly |-> FALSE]

TopFilesValues == {-1, 0, 1, 3}

MaxIssuesValues == {-1, 0, 1, 3}

OptionSpace ==
    {NilOptions} \cup
    { ReportOptions(v, t, m, s) :
        v \in BOOLEAN, t \in TopFilesValues, m \in MaxIssuesValues, s \in BOOLEAN }

(***************************************************************************)
(* The printing helpers                                                    *)
(***************************************************************************)
\* the three-way status of a percentage: below 30, below 70, otherwise
percentStatus(scorePercentage) ==
    IF RLess(scorePercentage, R(30, 1)) THEN "good"
    ELSE IF RLess(scorePercentage, R(70, 1)) THEN "warning"
    ELSE "danger"

\* getMetricComment: the level part of the comment key
getMetricComment(scorePercentage) ==
    IF RLess(scorePercentage, R(30, 1)) THEN "good"
    ELSE IF RLess(scorePercentage, R(70, 1)) THEN "medium"
    ELSE "bad"

\* getScoreComment: the score range of the comment key score.comment.<range>
getScoreComment(score) ==
    LET scoreRange == (intOf(RMul(score, R(100, 1))) \div 10) * 10
    IN  IF scoreRange > 90 THEN 90 ELSE scoreRange

\* printScoreComment: the comment and the style it is printed in
printScoreComment(score) ==
    [comment |-> getScoreComment(score),
     style |-> IF RLess(score, R(30, 1)) THEN "good"
               ELSE IF RLess(score, R(70, 1)) THEN "warning"
               ELSE "danger"]

getScoreColor(score) ==
    IF RGreater(score, R(7, 10)) THEN "danger"
    ELSE IF RGreater(score, R(3, 10)) THEN "warning"
    ELSE "good"

\* shortenPath on the "/"-separated parts of a path
shortenPath(parts) ==
    IF Len(parts) <= 4 THEN parts
    ELSE << "." >> \o SubSeq(parts, Len(parts) - 2, Len(parts))

\* totalWeight and weightedScore as accumulated over metrics[1..i]
RECURSIVE totalWeightUpTo(_, _)
totalWeightUpTo(metrics, i) ==
    IF i = 0 THEN R(0, 1)
    ELSE RAdd(totalWeightUpTo(metrics, i - 1), metrics[i].Weight)

RECURSIVE weightedScoreUpTo(_, _)
weightedScoreUpTo(metrics, i) ==
    IF i = 0 THEN R(0, 1)
    ELSE RAdd(weightedScoreUpTo(metrics, i - 1),
              RMul(metrics[i].Score, metrics[i].Weight))

NoCalc ==
    [printed |-> FALSE, terms |-> << >>, totalWeight |-> R(0, 1),
     overallScore |-> R(0, 1)]

\* variant: the weighted score is divided by the number of metrics
scoreCalcLineUnweighted(metrics) ==
    LET totalWeight == totalWeightUpTo(metrics, Len(metrics))
        weightedScore == weightedScoreUpTo(metrics, Len(metrics))
    IN  IF RGreater(totalWeight, R(0, 1))
        THEN [printed |-> TRUE,
              terms |-> [i \in 1..Len(metrics) |->
                           [Name |-> metrics[i].Name,
                            scorePercentage |-> roundPercent(metrics[i].Score),
                            Weight |-> metrics[i].Weight]],
              totalWeight |-> totalWeight,
              overallScore |->
                  roundPercent(RDivide(weightedScore, R(Len(metrics), 1)))]
        ELSE NoCalc

\* variant: the line is printed without the totalWeight > 0 test
scoreCalcLineUnguarded(metrics) ==
    LET totalWeight == totalWeightUpTo(metrics, Len(metrics))
        weightedScore == weightedScoreUpTo(metrics, Len(metrics))
    IN  [printed |-> TRUE,
         terms |-> [i \in 1..Len(metrics) |->
                      [Name |-> metrics[i].Name,
                       scorePercentage |-> roundPercent(metrics[i].Score),
                       Weight |-> metrics[i].Weight]],
         totalWeight |-> totalWeight,
         overallScore |-> roundPercent(RDivide(weightedScore, totalWeight))]

\* the score-calculation line of printMetricItems
scoreCalcLine(metrics) ==
    LET totalWeight == totalWeightUpTo(metrics, Len(metrics))
        weightedScore == weightedScoreUpTo(metrics, Len(metrics))
    IN  IF RGreater(totalWeight, R(0, 1))
        THEN [printed |-> TRUE,
              terms |-> [i \in 1..Len(metrics) |->
                           [Name |-> metrics[i].Name,
                            scorePercentage |-> roundPercent(metrics[i].Score),
                            Weight |-> metrics[i].Weight]],
              totalWeight |-> totalWeight,
              overallScore |-> roundPercent(RDivide(weightedScore, totalWeight))]
        ELSE NoCalc

\* printMetricItems: the metric lines and the score-calculation line
printMetricItems(res, iter) ==
    LET metrics == getSortedMetrics(res, iter)
    IN  [items |-> [i \in 1..Len(metrics) |->
                      LET scorePercentage == roundPercent(metrics[i].Score)
                      IN  [Name |-> metrics[i].Name,
                           status |-> percentStatus(scorePercentage),
                           scorePercentage |-> scorePercentage,
                           comment |-> getMetricComment(scorePercentage)]],
         calc |-> scoreCalcLine(metrics)]

\* the lines printed for one file: header, issues shown, "more issues" hint
fileEntry(f, number, maxIssues, verbose) ==
    [number |-> number,
     path |-> shortenPath(f.FilePath),
     fileScore |-> roundPercent(f.FileScore),
     color |-> getScoreColor(f.FileScore),
     good |-> Len(f.Issues) = 0,
     issues |-> [j \in 1..maxIssues |-> f.Issues[j]],
     more |-> IF Len(f.Issues) # 0 /\ ~verbose /\ Len(f.Issues) > maxIssues
              THEN Len(f.Issues) - maxIssues ELSE 0]

\* printTopIssues: message, file entries, and FilesAnalyzed after the call
printTopIssues(res, opts) ==
    LET sorted == getSortedFiles(res)
        allFiles == sorted.worstFiles
        maxFiles == min(opts.TopFiles, Len(allFiles))
    IN  IF Len(allFiles) = 0
        THEN [message |-> "report.no_issues", entries |-> << >>,
              FilesAnalyzed |-> sorted.FilesAnalyzed]
        ELSE [message |-> "",
              entries |-> [i \in 1..maxFiles |->
                             fileEntry(allFiles[i], i,
                                       min(opts.MaxIssues, Len(allFiles[i].Issues)),
                                       opts.Verbose)],
              FilesAnalyzed |-> sorted.FilesAnalyzed]

\* variant: TopFiles and MaxIssues limit the listing in verbose mode too
printAllFilesLimited(res, opts) ==
    LET sorted == getSortedFiles(res)
        files == sorted.worstFiles
        maxFilesToShow ==
            IF opts.TopFiles > 0 /\ opts.TopFiles < Len(files)
            THEN opts.TopFiles ELSE Len(files)
    IN  IF Len(files) = 0
        THEN [message |-> "verbose.no_files_found", entries |-> << >>,
              FilesAnalyzed |-> sorted.FilesAnalyzed]
        ELSE [message |-> "",
              entries |-> [i \in 1..maxFilesToShow |->
                             fileEntry(files[i], i,
                                       min(opts.MaxIssues, Len(files[i].Issues)),
                                       opts.Verbose)],
              FilesAnalyzed |-> sorted.FilesAnalyzed]

\* printAllFiles: message, file entries, and FilesAnalyzed after the call
printAllFiles(res, opts) ==
    LET sorted == getSortedFiles(res)
        files == sorted.worstFiles
        maxFilesToShow ==
            IF ~opts.Verbose /\ opts.TopFiles > 0 /\ opts.TopFiles < Len(files)
            THEN opts.TopFiles ELSE Len(files)
    IN  IF Len(files) = 0
        THEN [message |-> "verbose.no_files_found", entries |-> << >>,
              FilesAnalyzed |-> sorted.FilesAnalyzed]
        ELSE [message |-> "",
              entries |-> [i \in 1..maxFilesToShow |->
                             fileEntry(files[i], i,
                                       IF ~opts.Verbose
                                       THEN min(opts.MaxIssues, Len(files[i].Issues))
                                       ELSE Len(files[i].Issues),
                                       opts.Verbose)],
              FilesAnalyzed |-> sorted.FilesAnalyzed]

\* printSummary: the level of the conclusion and the advice chosen by it
printSummary(level) ==
    [level |-> level.NameKey,
     advice |-> IF level.MinScore < 30 THEN "advice.good"
                ELSE IF level.MinScore < 60 THEN "advice.moderate"
                ELSE "advice.bad"]

RECURSIVE totalIssuesUpTo(_, _)
totalIssuesUpTo(files, i) ==
    IF i = 0 THEN 0 ELSE totalIssuesUpTo(files, i - 1) + Len(files[i].Issues)

getTotalIssues(res) == totalIssuesUpTo(res.FilesAnalyzed, Len(res.FilesAnalyzed))

NoVerboseInfo ==
    [printed |-> FALSE, TotalFiles |-> 0, TotalLines |-> 0, totalIssues |-> 0,
     metrics |-> << >>]

\* printVerboseInfo: the statistics and the per-metric details
printVerboseInfo(res, iter) ==
    LET metrics == getSortedMetrics(res, iter)
    IN  [printed |-> TRUE,
         TotalFiles |-> res.TotalFiles,
         TotalLines |-> res.TotalLines,
         totalIssues |-> getTotalIssues(res),
         metrics |-> [i \in 1..Len(metrics) |->
                        [Name |-> metrics[i].Name,
                         Weight |-> metrics[i].Weight,
                         Description |-> metrics[i].Description,
                         color |-> getScoreColor(metrics[i].Score),
                         scorePercentage |-> roundPercent(metrics[i].Score)]]]

(***************************************************************************)
(* GenerateConsoleReport                                                   *)
(***************************************************************************)
\* categorizeIssues and getIssueIconAndColor not called yet
NotCategorized == [called |-> FALSE, categories |-> << >>]

NoIcons == [called |-> FALSE, icons |-> << >>]

NoMetricItems == [items |-> << >>, calc |-> NoCalc]

NoReport ==
    [sections |-> << >>, overallScore |-> R(0, 1),
     scoreComment |-> [comment |-> 0, style |-> ""],
     level |-> "", metricItems |-> << >>, calc |-> NoCalc,
     fileMessage |-> "", files |-> << >>,
     conclusion |-> [level |-> "", advice |-> ""],
     verbose |-> NoVerboseInfo]

\* variant: the statistics are emitted inside the "not summary-only" block
reportSectionsStatisticsInside(opts) ==
    << "title", "overall_score", "level" >>
      \o (IF ~opts.SummaryOnly
          THEN << "metrics" >> \o
               (IF opts.Verbose THEN << "all_files", "statistics" >>
                ELSE << "worst_files" >>)
          ELSE << >>)
      \o << "conclusion" >>

\* the sections in the order the statements of GenerateConsoleReport emit them
reportSections(opts) ==
    << "title", "overall_score", "level" >>
      \o (IF ~opts.SummaryOnly
          THEN << "metrics" >> \o
               (IF opts.Verbose THEN << "all_files" >> ELSE << "worst_files" >>)
          ELSE << >>)
      \o << "conclusion" >>
      \o (IF opts.Verbose THEN << "statistics" >> ELSE << >>)

\* the nil check at the head of GenerateConsoleReport
effectiveOptions(o) == IF o.isNil THEN DefaultReportOptions ELSE o

\* What GenerateConsoleReport(o) prints for res and what it leaves in res;
\* iter1 and iter2 are the orders in which the two ranges over res.Metrics
\* (printMetricItems, printVerboseInfo) visit the map.
consoleReport(res, o, iter1, iter2) ==
    LET opts == effectiveOptions(o)
        score == res.CodeQualityScore
        level == getQualityLevel(score)
        metricsPart == IF ~opts.SummaryOnly THEN printMetricItems(res, iter1)
                       ELSE NoMetricItems
        filesPart == IF opts.SummaryOnly
                     THEN [message |-> "", entries |-> << >>,
                           FilesAnalyzed |-> res.FilesAnalyzed]
                     ELSE IF opts.Verbose THEN printAllFiles(res, opts)
                     ELSE printTopIssues(res, opts)
        resAfter == [res EXCEPT !.FilesAnalyzed = filesPart.FilesAnalyzed]
    IN  [out |-> [sections |-> reportSections(opts),
                  overallScore |-> roundPercent(score),
                  scoreComment |-> printScoreComment(score),
                  level |-> level.NameKey,
                  metricItems |-> metricsPart.items,
                  calc |-> metricsPart.calc,
                  fileMessage |-> filesPart.message,
                  files |-> filesPart.entries,
                  conclusion |-> printSummary(level),
                  verbose |-> IF opts.Verbose THEN printVerboseInfo(resAfter, iter2)
                              ELSE NoVerboseInfo],
         result |-> resAfter]

(***************************************************************************)
(* Specification of the report                                             *)
(***************************************************************************)
\* NewReport(result), nothing printed yet.  One console report is generated
\* per Report, as the command that builds it does.
Init ==
    /\ result \in ResultSpace
    /\ options = NilOptions
    /\ out = NoReport
    /\ fnArg = R(0, 1)
    /\ fnRet = ""
    /\ issueArg = << >>
    /\ catRet = NotCategorized
    /\ iconRet = NoIcons

\* the orders of a range over the map that runs only if executed is TRUE
RangeOrders(M, executed) == IF executed THEN IterationOrders(M) ELSE { << >> }

GenerateConsoleReport ==
    /\ out = NoReport
    /\ \E o \in OptionSpace :
         \E iter1 \in RangeOrders(result.Metrics, ~effectiveOptions(o).SummaryOnly),
            iter2 \in RangeOrders(result.Metrics, effectiveOptions(o).Verbose) :
            LET rep == consoleReport(result, o, iter1, iter2)
            IN  /\ options' = o
                /\ out' = rep.out
                /\ result' = rep.result
                /\ UNCHANGED << fnArg, fnRet, issueArg, catRet, iconRet >>

Next == GenerateConsoleReport

Spec == Init /\ [][Next]_vars

(***************************************************************************)
(* Specification of getQualityLevel as a function of its argument          *)
(***************************************************************************)
\* the scores probed: multiples of 1/ProbeDen from below 0 to above 100
ProbeScores == { R(k, ProbeDen) : k \in (-2 * ProbeDen)..(102 * ProbeDen) }

InitLevel ==
    /\ result = EmptyResult
    /\ options = NilOptions
    /\ out = NoReport
    /\ fnArg \in ProbeScores
    /\ fnRet = ""
    /\ issueArg = << >>
    /\ catRet = NotCategorized
    /\ iconRet = NoIcons

CallGetQualityLevel ==
    /\ fnRet = ""
    /\ fnRet' = getQualityLevel(fnArg).NameKey
    /\ UNCHANGED << result, options, out, fnArg, issueArg, catRet, iconRet >>

NextLevel == CallGetQualityLevel

SpecLevel == InitLevel /\ [][NextLevel]_vars

(***************************************************************************)
(* Issue strings and their classification                                  *)
(*                                                                         *)
(* A string is the sequence of its characters; a CJK character is written  *)
(* "uXXXX" after its code point.  The report above carries an issue as the *)
(* text of its line; the category summary and the icon of the line are the *)
(* results of categorizeIssues and getIssueIconAndColor specified here.    *)
(***************************************************************************)
Uppers == << "A", "B", "C", "D", "E", "F", "G", "H", "I", "J", "K", "L", "M",
             "N", "O", "P", "Q", "R", "S", "T", "U", "V", "W", "X", "Y", "Z" >>

Lowers == << "a", "b", "c", "d", "e", "f", "g", "h", "i", "j", "k", "l", "m",
             "n", "o", "p", "q", "r", "s", "t", "u", "v", "w", "x", "y", "z" >>

\* strings.ToLower
ToLower(str) ==
    [i \in 1..Len(str) |->
        IF \E k \in 1..Len(Uppers) : Uppers[k] = str[i]
        THEN Lowers[CHOOSE k \in 1..Len(Uppers) : Uppers[k] = str[i]]
        ELSE str[i]]

\* strings.Contains
Contains(str, substr) ==
    \E i \in 0..(Len(str) - Len(substr)) :
        \A j \in 1..Len(substr) : str[i + j] = substr[j]

\* the keywords of the two classification switches
kwComplexityZh == << "u590d", "u6742", "u5ea6" >>

kwComplexity == << "c", "o", "m", "p", "l", "e", "x", "i", "t", "y" >>

kwCommentZh == << "u6ce8", "u91ca" >>

kwComment == << "c", "o", "m", "m", "e", "n", "t" >>

kwNamingZh == << "u547d", "u540d" >>

kwName == << "n", "a", "m", "e" >>

kwNaming == << "n", "a", "m", "i", "n", "g" >>

kwStructureZh == << "u7ed3", "u6784" >>

kwNestingZh == << "u5d4c", "u5957" >>

kwStructure == << "s", "t", "r", "u", "c", "t", "u", "r", "e" >>

kwNest == << "n", "e", "s", "t" >>

kwDuplicationZh == << "u91cd", "u590d" >>

kwDuplication == << "d", "u", "p", "l", "i", "c", "a", "t", "i", "o", "n" >>

kwErrorZh == << "u9519", "u8bef" >>

kwError == << "e", "r", "r", "o", "r" >>

\* the switch of categorizeIssues: the category an issue is counted in
issueCategory(issue) ==
    LET lowerIssue == ToLower(issue)
    IN  IF Contains(lowerIssue, kwComplexityZh) \/ Contains(lowerIssue, kwComplexity)
        THEN "complexity"
        ELSE IF Contains(lowerIssue, kwCommentZh) \/ Contains(lowerIssue, kwComment)
        THEN "comment"
        ELSE IF \/ Contains(lowerIssue, kwNamingZh) \/ Contains(lowerIssue, kwName)
                \/ Contains(lowerIssue, kwNaming)
        THEN "naming"
        ELSE IF \/ Contains(lowerIssue, kwStructureZh) \/ Contains(lowerIssue, kwNestingZh)
                \/ Contains(lowerIssue, kwStructure) \/ Contains(lowerIssue, kwNest)
        THEN "structure"
        ELSE IF Contains(lowerIssue, kwDuplicationZh) \/ Contains(lowerIssue, kwDuplication)
        THEN "duplication"
        ELSE IF Contains(lowerIssue, kwErrorZh) \/ Contains(lowerIssue, kwError)
        THEN "error"
        ELSE "other"

\* the map categorizeIssues starts from
zeroCategories ==
    [c \in {"complexity", "comment", "naming", "structure", "duplication",
            "error", "other"} |-> 0]

\* the counting loop of categorizeIssues over issues[1..i]
RECURSIVE categoriesUpTo(_, _)
categoriesUpTo(issues, i) ==
    IF i = 0 THEN zeroCategories
    ELSE LET categories == categoriesUpTo(issues, i - 1)
         IN  [categories EXCEPT ![issueCategory(issues[i])] = @ + 1]

\* variant: the categories of count 0 are not deleted
categorizeIssuesKeepingZeros(issues) == categoriesUpTo(issues, Len(issues))

\* categorizeIssues: the counts, without the categories of count 0
categorizeIssues(issues) ==
    LET categories == categoriesUpTo(issues, Len(issues))
    IN  [c \in { k \in DOMAIN categories : categories[k] # 0 } |-> categories[c]]

\* categoryInfo of the file sections: the colour and icon of each category
categoryInfo ==
    [c \in DOMAIN zeroCategories |->
        CASE c = "complexity"  -> [Color |-> "FgMagenta",  Icon |-> "cycle"]
          [] c = "comment"     -> [Color |-> "FgBlue",     Icon |-> "memo"]
          [] c = "naming"      -> [Color |-> "FgCyan",     Icon |-> "label"]
          [] c = "structure"   -> [Color |-> "FgYellow",   Icon |-> "construction"]
          [] c = "duplication" -> [Color |-> "FgRed",      Icon |-> "clipboard"]
          [] c = "error"       -> [Color |-> "FgHiRed",    Icon |-> "cross"]
          [] c = "other"       -> [Color |-> "FgHiYellow", Icon |-> "warning"]]

\* variant: the structure case without the "nest" keyword
getIssueIconAndColorWithoutNest(issue) ==
    LET lowerIssue == ToLower(issue)
    IN  IF Contains(lowerIssue, kwComplexityZh) \/ Contains(lowerIssue, kwComplexity)
        THEN [Icon |-> "cycle", Color |-> "FgMagenta"]
        ELSE IF Contains(lowerIssue, kwCommentZh) \/ Contains(lowerIssue, kwComment)
        THEN [Icon |-> "memo", Color |-> "FgBlue"]
        ELSE IF \/ Contains(lowerIssue, kwNamingZh) \/ Contains(lowerIssue, kwName)
                \/ Contains(lowerIssue, kwNaming)
        THEN [Icon |-> "label", Color |-> "FgCyan"]
        ELSE IF \/ Contains(lowerIssue, kwStructureZh) \/ Contains(lowerIssue, kwNestingZh)
                \/ Contains(lowerIssue, kwStructure)
        THEN [Icon |-> "construction", Color |-> "FgYellow"]
        ELSE IF Contains(lowerIssue, kwDuplicationZh) \/ Contains(lowerIssue, kwDuplication)
        THEN [Icon |-> "clipboard", Color |-> "FgRed"]
        ELSE IF Contains(lowerIssue, kwErrorZh) \/ Contains(lowerIssue, kwError)
        THEN [Icon |-> "cross", Color |-> "FgHiRed"]
        ELSE [Icon |-> "warning", Color |-> "FgHiYellow"]

\* getIssueIconAndColor: the icon and colour an issue line is printed with
getIssueIconAndColor(issue) ==
    LET lowerIssue == ToLower(issue)
    IN  IF Contains(lowerIssue, kwComplexityZh) \/ Contains(lowerIssue, kwComplexity)
        THEN [Icon |-> "cycle", Color |-> "FgMagenta"]
        ELSE IF Contains(lowerIssue, kwCommentZh) \/ Contains(lowerIssue, kwComment)
        THEN [Icon |-> "memo", Color |-> "FgBlue"]
        ELSE IF \/ Contains(lowerIssue, kwNamingZh) \/ Contains(lowerIssue, kwName)
                \/ Contains(lowerIssue, kwNaming)
        THEN [Icon |-> "label", Color |-> "FgCyan"]
        ELSE IF \/ Contains(lowerIssue, kwStructureZh) \/ Contains(lowerIssue, kwNestingZh)
                \/ Contains(lowerIssue, kwStructure) \/ Contains(lowerIssue, kwNest)
        THEN [Icon |-> "construction", Color |-> "FgYellow"]
        ELSE IF Contains(lowerIssue, kwDuplicationZh) \/ Contains(lowerIssue, kwDuplication)
        THEN [Icon |-> "clipboard", Color |-> "FgRed"]
        ELSE IF Contains(lowerIssue, kwErrorZh) \/ Contains(lowerIssue, kwError)
        THEN [Icon |-> "cross", Color |-> "FgHiRed"]
        ELSE [Icon |-> "warning", Color |-> "FgHiYellow"]

(***************************************************************************)
(* Specification of the classification of a file's issues                  *)
(***************************************************************************)
\* the words issue strings are made of
wComplexity == << "C", "o", "m", "p", "l", "e", "x", "i", "t", "y" >>

wComment == << "c", "o", "m", "m", "e", "n", "t" >>

wRename == << "r", "e", "n", "a", "m", "e" >>

wNaming == << "n", "a", "m", "i", "n", "g" >>

wNested == << "n", "e", "s", "t", "e", "d" >>

wStructure == << "s", "t", "r", "u", "c", "t", "u", "r", "e" >>

wDuplication == << "D", "u", "p", "l", "i", "c", "a", "t", "i", "o", "n" >>

wError == << "E", "R", "R", "O", "R" >>

wComplexityZh == << "u590d", "u6742", "u5ea6" >>

wCommentZh == << "u6ce8", "u91ca" >>

wNamingZh == << "u547d", "u540d" >>

wStructureZh == << "u7ed3", "u6784" >>

wNestingZh == << "u5d4c", "u5957" >>

wDuplicationZh == << "u91cd", "u590d" >>

wErrorZh == << "u9519", "u8bef" >>

wLong == << "l", "o", "n", "g" >>

wNam == << "n", "a", "m" >>

wFunc == << "f", "u", "n", "c" >>

Vocabulary ==
    { wComplexity, wComment, wRename, wNaming, wNested,
      wStructure, wDuplication, wError, wComplexityZh, wCommentZh,
      wNamingZh, wStructureZh, wNestingZh, wDuplicationZh, wErrorZh,
      wLong, wNam, wFunc }

\* the words ws joined by single spaces
RECURSIVE joinWords(_)
joinWords(ws) ==
    IF Len(ws) = 1 THEN ws[1] ELSE ws[1] \o << " " >> \o joinWords(Tail(ws))

\* every issue string of 1..MaxIssueWords words
IssuePool ==
    UNION { { joinWords(f) : f \in [1..n -> Vocabulary] } : n \in 1..MaxIssueWords }

\* issues of which the longer lists are made
IssueSamples ==
    { joinWords(<< wFunc, wComplexity >>), joinWords(<< wNested, wComment >>),
      joinWords(<< wRename, wError >>), joinWords(<< wLong, wFunc >>) }

\* the Issues classified: every single issue, and the lists of sample issues
IssueArgs ==
    { << i >> : i \in IssuePool }
      \cup UNION { [1..n -> IssueSamples] : n \in 0..MaxIssueCount }

InitIssues ==
    /\ result = EmptyResult
    /\ options = NilOptions
    /\ out = NoReport
    /\ fnArg = R(0, 1)
    /\ fnRet = ""
    /\ issueArg \in IssueArgs
    /\ catRet = NotCategorized
    /\ iconRet = NoIcons

\* issuesByCategory := r.categorizeIssues(f.Issues)
CallCategorizeIssues ==
    /\ ~catRet.called
    /\ catRet' = [called |-> TRUE, categories |-> categorizeIssues(issueArg)]
    /\ UNCHANGED << result, options, out, fnArg, fnRet, issueArg, iconRet >>

\* the issue lines of the file, all issues being printed
CallGetIssueIconAndColor ==
    /\ ~iconRet.called
    /\ iconRet' = [called |-> TRUE,
                   icons |-> [j \in 1..Len(issueArg) |->
                                getIssueIconAndColor(issueArg[j])]]
    /\ UNCHANGED << result, options, out, fnArg, fnRet, issueArg, catRet >>

NextIssues == CallCategorizeIssues \/ CallGetIssueIconAndColor

SpecIssues == InitIssues /\ [][NextIssues]_vars


(***************************************************************************)
(* Properties                                                              *)
(***************************************************************************)
Reported == out # NoReport

usedOptions == effectiveOptions(options)

MetricsPrinted == Reported /\ ~usedOptions.SummaryOnly

NamesOf(lines) == [i \in 1..Len(lines) |-> lines[i].Name]

\* C1: for a non-empty Metrics map of positive total weight, the result of the
\* score-calculation line is round(Sum(Score*Weight)/Sum(Weight)*10000)/100
\* over all metrics of the map, and it equals the overall score of the header
\* whenever CodeQualityScore is that weighted mean.
C1_CalcLineIsWeightedMean ==
    (/\ MetricsPrinted
     /\ DOMAIN result.Metrics # {}
     /\ RGreater(sumOver(result.Metrics, DOMAIN result.Metrics, FALSE), R(0, 1)))
    => /\ out.calc.printed
       /\ REq(out.calc.overallScore, roundPercent(weightedMean(result.Metrics)))
       /\ REq(out.calc.totalWeight,
              sumOver(result.Metrics, DOMAIN result.Metrics, FALSE))
       /\ (REq(result.CodeQualityScore, weightedMean(result.Metrics))
           => REq(out.calc.overallScore, out.overallScore))

\* a two-metric report whose weighted mean 11/30 is rounded to 36.67
C1_Witness ==
    /\ MetricsPrinted
    /\ Cardinality(DOMAIN result.Metrics) = 2
    /\ REq(result.CodeQualityScore, weightedMean(result.Metrics))
    /\ out.calc.printed
    /\ out.calc.overallScore = R(3667, 100)
    /\ out.overallScore = R(3667, 100)

\* C2: for a score >= 0 getQualityLevel returns the entry with the greatest
\* MinScore <= score, so the score lies below the next entry's MinScore; for a
\* score below every MinScore it returns the first entry; MinScore is strictly
\* increasing along QualityLevels.
C2_GreatestMinScoreBelow ==
    /\ \A i \in 1..(Len(QualityLevels) - 1) :
          QualityLevels[i].MinScore < QualityLevels[i + 1].MinScore
    /\ fnRet # ""
       => /\ RGeq(fnArg, R(0, 1))
             => \E i \in 1..Len(QualityLevels) :
                  /\ fnRet = QualityLevels[i].NameKey
                  /\ RGeq(fnArg, R(QualityLevels[i].MinScore, 1))
                  /\ \A j \in 1..Len(QualityLevels) :
                        RGeq(fnArg, R(QualityLevels[j].MinScore, 1))
                        => QualityLevels[j].MinScore <= QualityLevels[i].MinScore
                  /\ i < Len(QualityLevels)
                     => RLess(fnArg, R(QualityLevels[i + 1].MinScore, 1))
          /\ (\A j \in 1..Len(QualityLevels) :
                 RLess(fnArg, R(QualityLevels[j].MinScore, 1)))
             => fnRet = QualityLevels[1].NameKey

\* a score inside a middle band, and one above the last MinScore
C2_Witness ==
    \/ fnRet = "level.terrible" /\ RGreater(fnArg, R(40, 1))
    \/ fnRet = "level.disaster.ultimate" /\ RGreater(fnArg, R(100, 1))

\* the entry of QualityLevels whose band [MinScore, next MinScore) contains x
BandOf(x) ==
    CHOOSE i \in 1..Len(QualityLevels) :
        /\ RGeq(x, R(QualityLevels[i].MinScore, 1))
        /\ i < Len(QualityLevels) => RLess(x, R(QualityLevels[i + 1].MinScore, 1))

\* C3: for CodeQualityScore s in [0,1] the level of the header and of the
\* conclusion is the QualityLevels entry whose band contains 100*s, the
\* overall score as displayed.
C3_LevelOfDisplayedScore ==
    (/\ Reported
     /\ RGeq(result.CodeQualityScore, R(0, 1))
     /\ RGeq(R(1, 1), result.CodeQualityScore))
    => LET shown == QualityLevels[BandOf(RMul(result.CodeQualityScore, R(100, 1)))]
       IN  /\ out.level = shown.NameKey
           /\ out.conclusion.level = shown.NameKey

\* C4: GenerateConsoleReport leaves the AnalysisResult as it was (score,
\* totals, Metrics, order and contents of FilesAnalyzed and of every Issues).
C4_ResultReadOnly == [][result' = result]_vars

\* a report that sorted files which were not in descending score order
C4_Witness ==
    /\ MetricsPrinted
    /\ Len(result.FilesAnalyzed) >= 2
    /\ RLess(result.FilesAnalyzed[1].FileScore, result.FilesAnalyzed[2].FileScore)
    /\ Len(out.files) >= 2
    /\ out.files[1].path = shortenPath(result.FilesAnalyzed[2].FilePath)

\* C5: for the result of an empty input the report prints no score-calculation
\* line (no division by the zero total weight, no NaN printed), no file entry,
\* and only the no-issues (non-verbose) or no-files-found (verbose) message.
C5_EmptyInput ==
    (Reported /\ result = EmptyResult)
    => /\ ~out.calc.printed
       /\ ~IsNaN(out.calc.overallScore)
       /\ ~IsNaN(out.overallScore)
       /\ out.metricItems = << >>
       /\ out.files = << >>
       /\ out.verbose.metrics = << >>
       /\ out.fileMessage =
            IF usedOptions.SummaryOnly THEN ""
            ELSE IF usedOptions.Verbose THEN "verbose.no_files_found"
            ELSE "report.no_issues"

C5_Witness ==
    /\ Reported
    /\ result = EmptyResult
    /\ out.fileMessage = "verbose.no_files_found"
    /\ "metrics" \in { out.sections[i] : i \in 1..Len(out.sections) }

\* C6: two executions of getSortedMetrics on the same Metrics map (the one of
\* printMetricItems and the one of printVerboseInfo) yield the same sequence
\* of metrics.
C6_MetricOrderDeterministic ==
    (MetricsPrinted /\ usedOptions.Verbose)
    => NamesOf(out.metricItems) = NamesOf(out.verbose.metrics)

FilesPrinted == Reported /\ ~usedOptions.SummaryOnly

\* the file of the result a printed entry is about
FileOfEntry(e) ==
    CHOOSE i \in 1..Len(result.FilesAnalyzed) :
        shortenPath(result.FilesAnalyzed[i].FilePath) = e.path

\* C7: title, overall score and level come first; the metric section and
\* exactly one file section (all files when Verbose, worst files otherwise)
\* follow iff SummaryOnly is false; the conclusion comes after them; the
\* statistics come last iff Verbose, also when SummaryOnly; a nil options
\* argument gives the report of DefaultReportOptions (non-verbose, 3 files,
\* 3 issues per file, not summary-only).
C7_SectionOrder ==
    Reported =>
      LET sec == out.sections
          v == usedOptions.Verbose
          so == usedOptions.SummaryOnly
          at(name) == { i \in 1..Len(sec) : sec[i] = name }
      IN  /\ Len(sec) >= 4
          /\ at("title") = {1} /\ at("overall_score") = {2} /\ at("level") = {3}
          /\ at("metrics") = IF so THEN {} ELSE {4}
          /\ at("all_files") = IF ~so /\ v THEN {5} ELSE {}
          /\ at("worst_files") = IF ~so /\ ~v THEN {5} ELSE {}
          /\ at("conclusion") = IF so THEN {4} ELSE {6}
          /\ at("statistics") = IF v THEN {Len(sec)} ELSE {}
          /\ Len(sec) = 4 + (IF so THEN 0 ELSE 2) + (IF v THEN 1 ELSE 0)
          /\ out.verbose.printed = v
          /\ options.isNil
             => /\ sec = << "title", "overall_score", "level", "metrics",
                            "worst_files", "conclusion" >>
                /\ Len(out.files) = min(3, Len(result.FilesAnalyzed))
                /\ \A i \in 1..Len(out.files) :
                      Len(out.files[i].issues) =
                        min(3, Len(result.FilesAnalyzed[FileOfEntry(out.files[i])].Issues))

\* a verbose summary-only report, and a nil-options report that cut a file's
\* issues down to three
C7_Witness ==
    \/ Reported /\ usedOptions.SummaryOnly /\ usedOptions.Verbose
    \/ /\ Reported /\ options.isNil
       /\ \E i \in 1..Len(out.files) : out.files[i].more = 1

C9_VerboseShowsAll ==
    (FilesPrinted /\ usedOptions.Verbose)
    => LET files == result.FilesAnalyzed
       IN  /\ Len(out.files) = Len(files)
           /\ { FileOfEntry(out.files[i]) : i \in 1..Len(out.files) } = 1..Len(files)
           /\ \A i \in 1..Len(out.files) :
                 /\ out.files[i].issues = files[FileOfEntry(out.files[i])].Issues
                 /\ out.files[i].more = 0

\* two files, one with four issues, under TopFiles = 1 and MaxIssues = 1
C9_Witness ==
    /\ FilesPrinted /\ usedOptions.Verbose
    /\ usedOptions.TopFiles = 1 /\ usedOptions.MaxIssues = 1
    /\ Len(out.files) = 2
    /\ \E i \in 1..2 : Len(out.files[i].issues) = 4

\* C10: the metric lines are every metric of the Metrics map exactly once, in
\* non-decreasing Score order, and the terms of the score-calculation formula
\* are in the same order.
C10_SortedMetrics ==
    MetricsPrinted
    => LET items == out.metricItems
           M == result.Metrics
       IN  /\ Len(items) = Cardinality(DOMAIN M)
           /\ { items[i].Name : i \in 1..Len(items) } = DOMAIN M
           /\ \A i \in 1..Len(items) :
                 items[i].scorePercentage = roundPercent(M[items[i].Name].Score)
           /\ \A i \in 1..(Len(items) - 1) :
                 ~RGreater(M[items[i].Name].Score, M[items[i + 1].Name].Score)
           /\ out.calc.printed
              => /\ NamesOf(out.calc.terms) = NamesOf(items)
                 /\ \A i \in 1..Len(items) :
                       /\ out.calc.terms[i].scorePercentage = items[i].scorePercentage
                       /\ out.calc.terms[i].Weight = M[items[i].Name].Weight

\* two metrics of different scores, with the formula printed
C10_Witness ==
    /\ MetricsPrinted
    /\ Len(out.metricItems) = 2
    /\ RLess(out.metricItems[1].scorePercentage, out.metricItems[2].scorePercentage)
    /\ out.calc.printed
    /\ Len(out.calc.terms) = 2

\* C11: the overall score comment is coloured by the score on the 0-100 scale
\* on which the overall score is displayed: good below 30, warning from 30 to
\* below 70, danger from 70 on (CodeQualityScore 0.5 is printed in warning
\* style, 0.8 in danger style).
C11_CommentStyleOfDisplayedScore ==
    (/\ Reported
     /\ RGeq(result.CodeQualityScore, R(0, 1))
     /\ RGeq(R(1, 1), result.CodeQualityScore))
    => out.scoreComment.style =
         (IF RLess(out.overallScore, R(30, 1)) THEN "good"
          ELSE IF RLess(out.overallScore, R(70, 1)) THEN "warning"
          ELSE "danger")

\* the six keyword groups in their priority order, and the fallback
CategoryPriority ==
    << "complexity", "comment", "naming", "structure", "duplication", "error" >>

AllCategories ==
    { CategoryPriority[g] : g \in 1..Len(CategoryPriority) } \cup { "other" }

GroupKeywords(g) ==
    CASE g = 1 -> { kwComplexityZh, kwComplexity }
      [] g = 2 -> { kwCommentZh, kwComment }
      [] g = 3 -> { kwNamingZh, kwName, kwNaming }
      [] g = 4 -> { kwStructureZh, kwNestingZh, kwStructure, kwNest }
      [] g = 5 -> { kwDuplicationZh, kwDuplication }
      [] g = 6 -> { kwErrorZh, kwError }

MatchingGroups(issue) ==
    LET lowered == ToLower(issue)
    IN  { g \in 1..Len(CategoryPriority) :
            \E kw \in GroupKeywords(g) : Contains(lowered, kw) }

\* the category of the first keyword group that matches, "other" if none does
FirstMatchingCategory(issue) ==
    LET matching == MatchingGroups(issue)
    IN  IF matching = {} THEN "other"
        ELSE CategoryPriority[CHOOSE g \in matching : \A h \in matching : g <= h]

RECURSIVE SumOfCounts(_, _)
SumOfCounts(m, D) ==
    IF D = {} THEN 0
    ELSE LET c == CHOOSE x \in D : TRUE IN m[c] + SumOfCounts(m, D \ {c})

CountIn(m, c) == IF c \in DOMAIN m THEN m[c] ELSE 0

\* C12: categorizeIssues counts every issue in exactly one of the seven
\* categories, the one of the first keyword group that matches in priority
\* order and "other" if none matches; the counts sum to len(issues); the map
\* has no category of count 0 and is empty for an empty issue list.
C12_CategoriesPartition ==
    catRet.called
    => LET m == catRet.categories
           expected == [j \in 1..Len(issueArg) |-> FirstMatchingCategory(issueArg[j])]
           inCategory(c) == { j \in 1..Len(issueArg) : expected[j] = c }
       IN  /\ DOMAIN m \subseteq AllCategories
           /\ \A c \in AllCategories :
                 /\ c \in DOMAIN m <=> inCategory(c) # {}
                 /\ CountIn(m, c) = Cardinality(inCategory(c))
           /\ \A c \in DOMAIN m : m[c] # 0
           /\ SumOfCounts(m, DOMAIN m) = Len(issueArg)
           /\ issueArg = << >> => DOMAIN m = {}

\* three issues, two of them naming both "nested" and "comment" and counted
\* as comment issues, one matching no keyword
C12_Witness ==
    /\ catRet.called
    /\ Len(issueArg) = 3
    /\ DOMAIN catRet.categories = { "comment", "other" }
    /\ catRet.categories["comment"] = 2
    /\ \E j \in 1..3 : Contains(ToLower(issueArg[j]), kwNest)

\* C13: the category in which categorizeIssues counts an issue is the
\* category whose icon and colour getIssueIconAndColor returns for it, so the
\* count of each category in the summary line is the number of issue lines
\* printed with that category's icon and colour.
C13_ClassificationSitesAgree ==
    (catRet.called /\ iconRet.called)
    => /\ Len(iconRet.icons) = Len(issueArg)
       /\ \A j \in 1..Len(iconRet.icons) :
             \E c \in AllCategories : iconRet.icons[j] = categoryInfo[c]
       /\ \A c \in AllCategories :
             CountIn(catRet.categories, c) =
               Cardinality({ j \in 1..Len(iconRet.icons) :
                               iconRet.icons[j] = categoryInfo[c] })

\* a single issue with keywords of two groups ("rename", "ERROR"), counted
\* and printed as a naming issue; and one whose only keyword is "nest"
C13_Witness ==
    /\ catRet.called /\ iconRet.called
    /\ Len(issueArg) = 1
    /\ \/ /\ Contains(ToLower(issueArg[1]), kwError)
          /\ iconRet.icons[1].Icon = "label"
          /\ catRet.categories = ("naming" :> 1)
       \/ /\ issueArg[1] = wNested
          /\ iconRet.icons[1].Icon = "construction"
          /\ catRet.categories = ("structure" :> 1)

====
